---- MODULE Spec2Model ----
(***************************************************************************)
(* A model of osmnx/geometries.py: the conversion of OSM nodes, ways and   *)
(* multipolygon relations into a table of geometries.                      *)
(*                                                                         *)
(* The geometry kernel (shapely) is modelled as a raster: a coordinate is  *)
(* a grid point <<lon, lat>>, the area of a shape is the set of grid       *)
(* points it covers ("cells"), within is set inclusion, difference is set  *)
(* difference and the parts of a shape are the 4-connected components of   *)
(* its cells.  A Python dict is a function; a key absent from a dict is    *)
(* absent from the function's domain.                                      *)
(***************************************************************************)
EXTENDS Integers, Sequences, FiniteSets, TLC

VARIABLES
    pc,                     \* position in _create_gdf
    err,                    \* the exception that left _create_gdf, if any
    sizes,                  \* response_jsons: the number of elements still to read in each batch
    coords,                 \* coords: node id -> [lat, lon]
    geometries,             \* geometries: unique id -> record (a dict)
    untagged_element_ids,   \* untagged_element_ids: set of unique ids
    gdf,                    \* the GeoDataFrame: unique id -> row, then a set of rows
    polygon,                \* the polygon argument
    tags,                   \* the tags argument
    last_element,           \* history: unique id -> the last element read with that id
    writers,                \* history: unique id -> the last two elements read with that id
                            \*   that wrote a record, in input order
    shells,                 \* history: unique id of a relation -> the
                            \*   outer_polygons_with_holes its geometry was made of
    entry,                  \* the function that was called
    way,                    \* the closed way that is parsed on its own
    rule_table,             \* the rule table it is parsed with
    intersecting_keys,      \* the intersecting keys that are still to visit
    is_polygon,             \* is_polygon of _closed_way_is_linestring_or_polygon
    linestring_or_polygon,  \* the record _parse_way_to_linestring_or_polygon returns
    outers,                 \* outer_polygons: the outer polygons still to loop through
    inners,                 \* inner_polygons: the inner polygons
    outer,                  \* outer_polygon: the variable of the outer loop
    inners_left,            \* the inner polygons the inner loop has still to visit
    with_holes,             \* outer_polygons_with_holes
    holed_geometry,         \* geometry: the geometry that is returned
    shell,                  \* history: outer_polygon as the outer loop took it
    holed,                  \* history: shell and outer_polygon at the end of each inner loop
    logged,                 \* the number of messages that utils.log was given
    frame,                  \* gdf with its index, its columns and its values in order
    applied                 \* history: the frames the filter returned

shellVars == <<outers, inners, outer, inners_left,
               with_holes, holed_geometry, shell, holed, logged>>

frameVars == <<frame, applied>>

ruleVars == <<way, rule_table, intersecting_keys, is_polygon, linestring_or_polygon,
              shellVars, frameVars>>

vars == <<pc, err, sizes, coords, geometries, untagged_element_ids, gdf,
          polygon, tags, last_element, writers, shells, entry, ruleVars>>

(***************************************************************************)
(* Bounds of the model.                                                    *)
(***************************************************************************)
MaxElems == 5
MaxBatches == 2

None == "None"

Range(f) == {f[x] : x \in DOMAIN f}

\* An empty dict.
EmptyDict == [k \in {} |-> None]

\* dict.get(key), None when the key is absent.
Get(d, key) == IF key \in DOMAIN d THEN d[key] ELSE None

\* d with the keys in ks removed.
Without(d, ks) == [k \in DOMAIN d \ ks |-> d[k]]

(***************************************************************************)
(* The geometry kernel.                                                    *)
(***************************************************************************)
\* LineString(), Polygon(), MultiPolygon(): shapely 1.x builds every empty
\* geometry on the same empty GEOS geometry.
EmptyGeometry == [geom_type |-> "GeometryCollection", coords |-> <<>>, cells |-> {}, geoms |-> <<>>]

Point(lon, lat) ==
    [geom_type |-> "Point", coords |-> << <<lon, lat>> >>, cells |-> {<<lon, lat>>}, geoms |-> <<>>]

\* LineString(cs) for two coordinates or more.
LineString(cs) == [geom_type |-> "LineString", coords |-> cs, cells |-> Range(cs), geoms |-> <<>>]

\* Polygon(cs) for a closed ring of four coordinates or more.
Polygon(cs) == [geom_type |-> "Polygon", coords |-> cs, cells |-> Range(cs), geoms |-> <<>>]

\* A polygon the kernel computed (difference, polygonize, buffer): its area only.
AreaPolygon(cells) == [geom_type |-> "Polygon", coords |-> <<>>, cells |-> cells, geoms |-> <<>>]

RECURSIVE CellsOf(_)
CellsOf(polys) ==
    IF polys = <<>> THEN {} ELSE Head(polys).cells \cup CellsOf(Tail(polys))

\* MultiPolygon(polys), the empty geometry for an empty list.
MultiPolygon(polys) ==
    IF polys = <<>> THEN EmptyGeometry
    ELSE [geom_type |-> "MultiPolygon", coords |-> <<>>, cells |-> CellsOf(polys), geoms |-> polys]

is_empty(g) == g.cells = {}

Abs(x) == IF x < 0 THEN -x ELSE x

Adjacent(c, d) == Abs(c[1] - d[1]) + Abs(c[2] - d[2]) = 1

\* The connected part of cells that holds the cells in part.
RECURSIVE Grow(_, _)
Grow(part, cells) ==
    LET more == {c \in cells \ part : \E d \in part : Adjacent(c, d)}
    IN  IF more = {} THEN part ELSE Grow(part \cup more, cells)

\* The connected parts of an area, as a sequence of polygons.
RECURSIVE Parts(_)
Parts(cells) ==
    IF cells = {} THEN <<>>
    ELSE LET c == CHOOSE x \in cells : \A y \in cells : x[1] < y[1] \/ (x[1] = y[1] /\ x[2] <= y[2])
             part == Grow({c}, cells)
         IN  <<AreaPolygon(part)>> \o Parts(cells \ part)

\* The geometry of an area: empty Polygon, Polygon or MultiPolygon.
AreaGeometry(cells) ==
    LET parts == Parts(cells)
    IN  IF Len(parts) = 0 THEN AreaPolygon({})
        ELSE IF Len(parts) = 1 THEN parts[1]
        ELSE MultiPolygon(parts)

\* a.within(b): an empty geometry is within nothing.
Within(a, b) == a.cells # {} /\ a.cells \subseteq b.cells

\* a.difference(b)
Difference(a, b) == AreaGeometry(a.cells \ b.cells)

\* g.is_valid: a line needs two distinct points, a ring three, and the
\* polygons of a MultiPolygon may not overlap.
is_valid(g) ==
    CASE g.geom_type = "LineString" -> Cardinality(g.cells) >= 2
      [] g.geom_type = "Polygon" -> g.coords = <<>> \/ Cardinality(g.cells) >= 3
      [] g.geom_type = "MultiPolygon" ->
            \A i, j \in DOMAIN g.geoms : i # j => g.geoms[i].cells \cap g.geoms[j].cells = {}
      [] OTHER -> TRUE

\* g.buffer(0): the area of g; a line or a ring without area has none.
Buffer0(g) ==
    CASE g.geom_type = "MultiPolygon" -> AreaGeometry(g.cells)
      [] g.geom_type = "Polygon" /\ is_valid(g) -> g
      [] OTHER -> AreaPolygon({})

(***************************************************************************)
(* Elements of an Overpass response.  has_tags tells whether the element   *)
(* has a "tags" key at all; lat and lon are read for nodes, nodes for      *)
(* ways, members for relations.                                            *)
(***************************************************************************)
Node(id, has_tags, t, lon, lat) ==
    [type |-> "node", id |-> id, has_tags |-> has_tags, tags |-> t,
     lon |-> lon, lat |-> lat, nodes |-> <<>>, members |-> <<>>]

Way(id, has_tags, t, nodes) ==
    [type |-> "way", id |-> id, has_tags |-> has_tags, tags |-> t,
     lon |-> 0, lat |-> 0, nodes |-> nodes, members |-> <<>>]

Relation(id, has_tags, t, members) ==
    [type |-> "relation", id |-> id, has_tags |-> has_tags, tags |-> t,
     lon |-> 0, lat |-> 0, nodes |-> <<>>, members |-> members]

Member(type, ref, role) == [type |-> type, ref |-> ref, role |-> role]

\* ("tags" not in element) or (not element["tags"])
Untagged(element) == ~element.has_tags \/ DOMAIN element.tags = {}

\* f"{element['type']}/{element['id']}": the pair determines the string and
\* the string the pair.
UniqueId(type, id) == <<type, id>>

(***************************************************************************)
(* The rule table of polygon_features.py: tag key -> the mode ("all",      *)
(* "blocklist", "passlist") and the values of the block or pass list.      *)
(***************************************************************************)
Rule(mode, values) == [polygon |-> mode, values |-> values]

polygon_features ==
    ("building" :> Rule("all", {})) @@
    ("natural" :> Rule("blocklist", {"coastline", "cliff"})) @@
    ("highway" :> Rule("passlist", {"services", "rest_area"}))

\* VisitKey with the block and pass lists assigning is_polygon either way.
VisitKeyAssigning(was_polygon, key, element_tags, features) ==
    LET key_value == Get(element_tags, key)
        blocklist_or_passlist == features[key].polygon
        polygon_features_values == features[key].values
    IN  IF blocklist_or_passlist = "all" THEN TRUE
        ELSE IF blocklist_or_passlist = "blocklist"
        THEN key_value \notin polygon_features_values
        ELSE IF blocklist_or_passlist = "passlist"
        THEN key_value \in polygon_features_values
        ELSE was_polygon

\* VisitKey with the passlist read as a second blocklist.
VisitKeyPassAsBlock(was_polygon, key, element_tags, features) ==
    LET key_value == Get(element_tags, key)
        blocklist_or_passlist == features[key].polygon
        polygon_features_values == features[key].values
    IN  IF blocklist_or_passlist = "all" THEN TRUE
        ELSE IF key_value \notin polygon_features_values THEN TRUE
        ELSE was_polygon

\* One turn of the loop over the intersecting keys: is_polygon after key,
\* when it was was_polygon before.
VisitKey(was_polygon, key, element_tags, features) ==
    LET key_value == Get(element_tags, key)
        blocklist_or_passlist == features[key].polygon
        polygon_features_values == features[key].values
    IN  IF blocklist_or_passlist = "all" THEN TRUE
        ELSE IF blocklist_or_passlist = "blocklist"
        THEN (IF key_value \notin polygon_features_values THEN TRUE ELSE was_polygon)
        ELSE IF blocklist_or_passlist = "passlist"
        THEN (IF key_value \in polygon_features_values THEN TRUE ELSE was_polygon)
        ELSE was_polygon

\* The loop over intersecting_keys, in the order the set is iterated.
RECURSIVE VisitKeys(_, _, _, _)
VisitKeys(was_polygon, keys, element_tags, features) ==
    IF keys = {} THEN was_polygon
    ELSE LET key == CHOOSE k \in keys : TRUE
         IN  VisitKeys(VisitKey(was_polygon, key, element_tags, features),
                       keys \ {key}, element_tags, features)

\* Whether the closed way starts the loop: it has tags and is not area=no.
ComparesTags(element) ==
    element.has_tags /\ Get(element.tags, "area") # "no"

\* _closed_way_is_linestring_or_polygon(element, polygon_features)
ClosedWayIsPolygon(element, features) ==
    IF ComparesTags(element)
    THEN VisitKeys(FALSE, DOMAIN element.tags \cap DOMAIN features, element.tags, features)
    ELSE FALSE

(***************************************************************************)
(* The parsers.  A record is a dict: column name -> value; later           *)
(* assignments to a key replace earlier ones.                              *)
(***************************************************************************)
\* A variant that takes the latitude for the longitude.
ParseNodeToCoordSwapped(element) == [lat |-> element.lon, lon |-> element.lat]

\* _parse_node_to_coord(element)
ParseNodeToCoord(element) == [lat |-> element.lat, lon |-> element.lon]

\* The loop "for tag in element['tags']: record[tag] = element['tags'][tag]".
TagColumns(element) == IF element.has_tags THEN element.tags ELSE EmptyDict

\* _parse_node_to_point(element)
ParseNodeToPoint(element) ==
    ("geometry" :> Point(element.lon, element.lat)) @@
    TagColumns(element) @@
    ("osmid" :> element.id) @@ ("element_type" :> "node")

\* The node ids of the way that have no coordinate.
MissingNodes(element, cs) == {element.nodes[i] : i \in DOMAIN element.nodes} \ DOMAIN cs

\* [(coords[node]["lon"], coords[node]["lat"]) for node in nodes]
CoordList(nodes, cs) == [i \in DOMAIN nodes |-> <<cs[nodes[i]].lon, cs[nodes[i]].lat>>]

IsClosed(element) == element.nodes[1] = element.nodes[Len(element.nodes)]

\* The geometry of an open way and the exception that leaves the parser, if
\* any: a KeyError is caught, and the geometry is then LineString().
OpenWayGeometry(element, cs) ==
    [raised |-> "none",
     geometry |-> IF MissingNodes(element, cs) # {} THEN EmptyGeometry
                  ELSE LineString(CoordList(element.nodes, cs))]

\* The geometry of a closed way: a ValueError of the kernel (a ring of fewer
\* than four coordinates, a line of fewer than two) is caught, a KeyError of
\* the lookup in coords is not.
ClosedWayGeometry(element, cs, as_polygon) ==
    IF MissingNodes(element, cs) # {}
    THEN [raised |-> "KeyError", geometry |-> None]
    ELSE IF as_polygon
    THEN [raised |-> "none",
          geometry |-> IF Len(element.nodes) < 4 THEN EmptyGeometry
                       ELSE Polygon(CoordList(element.nodes, cs))]
    ELSE [raised |-> "none",
          geometry |-> IF Len(element.nodes) < 2 THEN EmptyGeometry
                       ELSE LineString(CoordList(element.nodes, cs))]

\* The record of a way with its geometry.
WayRecord(element, built) ==
    [raised |-> built.raised,
     record |-> IF built.raised # "none" THEN None
                ELSE ("geometry" :> built.geometry) @@
                     TagColumns(element) @@
                     ("osmid" :> element.id) @@ ("element_type" :> "way") @@
                     ("nodes" :> element.nodes)]

\* _parse_way_to_linestring_or_polygon(element, coords, polygon_features)
ParseWay(element, cs, features) ==
    WayRecord(element,
              IF ~IsClosed(element) THEN OpenWayGeometry(element, cs)
              ELSE ClosedWayGeometry(element, cs, ClosedWayIsPolygon(element, features)))

(***************************************************************************)
(* Multipolygon relations.                                                 *)
(***************************************************************************)
\* [member["ref"] for member in element["members"] if member["type"] == "way"]
RECURSIVE RefsOfWays(_)
RefsOfWays(members) ==
    IF members = <<>> THEN <<>>
    ELSE (IF Head(members).type = "way" THEN <<Head(members).ref>> ELSE <<>>)
         \o RefsOfWays(Tail(members))

\* The geometries of the member ways with the role and the geometry type.
RECURSIVE Bucket(_, _, _, _)
Bucket(members, geoms, role, geom_type) ==
    IF members = <<>> THEN <<>>
    ELSE LET member == Head(members)
             rest == Bucket(Tail(members), geoms, role, geom_type)
         IN  IF member.type = "way" /\ member.role = role
                /\ geoms[UniqueId("way", member.ref)]["geometry"].geom_type = geom_type
             THEN <<geoms[UniqueId("way", member.ref)]["geometry"]>> \o rest
             ELSE rest

Reverse(s) == [i \in DOMAIN s |-> s[Len(s) + 1 - i]]

IsOpenLine(l) == l[1] # l[Len(l)]

\* Two open lines that meet at an end, joined into one.
Joined(a, b) ==
    IF a[Len(a)] = b[1] THEN a \o Tail(b)
    ELSE IF a[Len(a)] = b[Len(b)] THEN a \o Tail(Reverse(b))
    ELSE IF a[1] = b[1] THEN Reverse(a) \o Tail(b)
    ELSE b \o Tail(a)

Joinable(a, b) ==
    /\ a # b /\ IsOpenLine(a) /\ IsOpenLine(b)
    /\ {a[1], a[Len(a)]} \cap {b[1], b[Len(b)]} # {}

\* linemerge(lines): the lines with every two that meet at an end joined.
RECURSIVE LineMerge(_)
LineMerge(lines) ==
    IF \E a, b \in lines : Joinable(a, b)
    THEN LET pair == CHOOSE ab \in lines \X lines : Joinable(ab[1], ab[2])
         IN  LineMerge((lines \ {pair[1], pair[2]}) \cup {Joined(pair[1], pair[2])})
    ELSE lines

\* polygonize(line): the ring a closed line bounds; an open line or a line
\* without area bounds nothing.
Polygonize(line) ==
    IF ~IsOpenLine(line) /\ Len(line) >= 4 /\ Cardinality(Range(line)) >= 3
    THEN <<Polygon(line)>> ELSE <<>>

RECURSIVE PolygonizeEach(_)
PolygonizeEach(lines) ==
    IF lines = {} THEN <<>>
    ELSE LET line == CHOOSE l \in lines : TRUE
         IN  Polygonize(line) \o PolygonizeEach(lines \ {line})

\* The polygons of the merged linestring fragments of one role.
MergedPolygons(linestrings) ==
    PolygonizeEach(LineMerge({linestrings[i].coords : i \in DOMAIN linestrings}))

\* _assemble_multipolygon_component_polygons(element, geometries)
AssembleComponentPolygons(element, geoms) ==
    [outer_polygons |->
        Bucket(element.members, geoms, "outer", "Polygon")
        \o MergedPolygons(Bucket(element.members, geoms, "outer", "LineString")),
     inner_polygons |->
        Bucket(element.members, geoms, "inner", "Polygon")
        \o MergedPolygons(Bucket(element.members, geoms, "inner", "LineString"))]

\* The inner loop: outer_polygon after the inner polygons, in list order.
RECURSIVE SubtractInner(_, _)
SubtractInner(outer_polygon, inner_polygons) ==
    IF inner_polygons = <<>> THEN outer_polygon
    ELSE SubtractInner(
            IF Within(Head(inner_polygons), outer_polygon)
            THEN Difference(outer_polygon, Head(inner_polygons))
            ELSE outer_polygon,
            Tail(inner_polygons))

\* What one outer polygon adds to outer_polygons_with_holes.
Holed(outer_polygon) ==
    IF outer_polygon.geom_type = "Polygon" THEN <<outer_polygon>>
    ELSE IF outer_polygon.geom_type = "MultiPolygon" THEN outer_polygon.geoms
    ELSE <<>>

\* The outer loop: outer_polygons_with_holes.
RECURSIVE OuterPolygonsWithHoles(_, _)
OuterPolygonsWithHoles(outer_polygons, inner_polygons) ==
    IF outer_polygons = <<>> THEN <<>>
    ELSE Holed(SubtractInner(Head(outer_polygons), inner_polygons))
         \o OuterPolygonsWithHoles(Tail(outer_polygons), inner_polygons)

\* A variant that makes a MultiPolygon of any number of polygons.
ShellsGeometryAlwaysMulti(outer_polygons_with_holes) ==
    MultiPolygon(outer_polygons_with_holes)

\* The geometry made of outer_polygons_with_holes.
ShellsGeometry(outer_polygons_with_holes) ==
    IF Len(outer_polygons_with_holes) = 1 THEN outer_polygons_with_holes[1]
    ELSE MultiPolygon(outer_polygons_with_holes)

\* _subtract_inner_polygons_from_outer_polygons(element, outer_polygons, inner_polygons)
SubtractInnerFromOuter(outer_polygons, inner_polygons) ==
    ShellsGeometry(OuterPolygonsWithHoles(outer_polygons, inner_polygons))

\* The member ways that are not in geometries.
MissingWays(element, geoms) ==
    {r \in Range(RefsOfWays(element.members)) : UniqueId("way", r) \notin DOMAIN geoms}

\* The geometry of a multipolygon relation: MultiPolygon() when a member way
\* is not in geometries.
RelationGeometry(element, geoms) ==
    IF MissingWays(element, geoms) # {} THEN MultiPolygon(<<>>)
    ELSE LET parts == AssembleComponentPolygons(element, geoms)
         IN  SubtractInnerFromOuter(parts.outer_polygons, parts.inner_polygons)

\* The outer polygons with holes that were made for the relation.
RelationShells(element, geoms) ==
    IF MissingWays(element, geoms) # {} THEN <<>>
    ELSE LET parts == AssembleComponentPolygons(element, geoms)
         IN  OuterPolygonsWithHoles(parts.outer_polygons, parts.inner_polygons)

\* _parse_relation_to_multipolygon(element, geometries)
ParseRelation(element, geoms) ==
    LET member_way_refs == RefsOfWays(element.members)
        head == TagColumns(element) @@
                ("osmid" :> element.id) @@ ("element_type" :> "relation") @@
                ("ways" :> member_way_refs)
    IN  IF MissingWays(element, geoms) # {}
        THEN ("geometry" :> RelationGeometry(element, geoms)) @@ head
        ELSE ("geometry" :> RelationGeometry(element, geoms)) @@
             ("nodes" :> <<[i \in DOMAIN member_way_refs |->
                              geoms[UniqueId("way", member_way_refs[i])]["nodes"]]>>) @@
             head

(***************************************************************************)
(* The GeoDataFrame: index label -> row.  A row holds the columns it has a *)
(* value in, so a column that is null in every row is no column at all.    *)
(* Rows keep their unique id as label after reset_index; the positions of  *)
(* the new RangeIndex are not modelled.                                    *)
(***************************************************************************)
Columns(table) == UNION {DOMAIN table[label] : label \in DOMAIN table}

\* _buffer_invalid_geometries(gdf)
BufferInvalidGeometries(table) ==
    [label \in DOMAIN table |->
        IF ~is_valid(table[label]["geometry"])
        THEN [table[label] EXCEPT !["geometry"] = Buffer0(@)]
        ELSE table[label]]

\* The polygon and tags arguments: given is FALSE for None.
NoPolygon == [given |-> FALSE, shape |-> EmptyGeometry]
NoTags == [given |-> FALSE, spec |-> EmptyDict]

\* The values of a tags dict: True, a string, a list of strings.
AnyValue == [is |-> "True"]
Str(v) == [is |-> "str", str |-> v]
List(vs) == [is |-> "list", list |-> vs]

\* utils_geo._intersect_index_quadrats(gdf, polygon)
IntersectIndexQuadrats(table, shape) ==
    {label \in DOMAIN table : table[label]["geometry"].cells \cap shape.cells # {}}

\* The row's entry of tag_filter for one requested key.
TagFilter(row, key, value) ==
    IF value.is = "True" THEN key \in DOMAIN row
    ELSE IF value.is = "str" THEN Get(row, key) = value.str
    ELSE Get(row, key) \in value.list

\* The row's entry of combined_tag_filter after the loop over tags_in_columns.
RECURSIVE CombinedTagFilter(_, _, _, _)
CombinedTagFilter(combined_tag_filter, row, keys, spec) ==
    IF keys = {} THEN combined_tag_filter
    ELSE LET key == CHOOSE k \in keys : TRUE
         IN  CombinedTagFilter(combined_tag_filter \/ TagFilter(row, key, spec[key]),
                               row, keys \ {key}, spec)

\* if polygon: a geometry is true unless it is empty.
PolygonGiven(p) == p.given /\ ~is_empty(p.shape)

\* if tags: a dict is true unless it is empty.
TagsGiven(t) == t.given /\ DOMAIN t.spec # {}

\* The row's entry of polygon_filter.
PolygonFilter(table, label, p) ==
    IF PolygonGiven(p) THEN label \in IntersectIndexQuadrats(table, p.shape) ELSE TRUE

\* The row's entry of the tag filter that is applied.
TagsFilter(table, label, t) ==
    IF TagsGiven(t)
    THEN CombinedTagFilter(FALSE, table[label], DOMAIN t.spec \cap Columns(table), t.spec)
    ELSE TRUE

\* A variant that combines the two filters with "or".
KeptByEitherFilter(table, p, t) ==
    {label \in DOMAIN table : PolygonFilter(table, label, p) \/ TagsFilter(table, label, t)}

\* gdf[polygon_filter & combined_tag_filter]
Kept(table, p, t) ==
    {label \in DOMAIN table : PolygonFilter(table, label, p) /\ TagsFilter(table, label, t)}

\* _filter_gdf_by_polygon_and_tags(gdf, polygon, tags)
FilterGdf(table, p, t) ==
    IF DOMAIN table = {} THEN table
    ELSE [label \in Kept(table, p, t) |-> ("unique_id" :> label) @@ table[label]]

\* A variant that drops no row.
DropNothing(table) == table

\* gdf[~(gdf["geometry"].isna() | gdf["geometry"].is_empty)]
DropMissingOrEmpty(table) ==
    [label \in {l \in DOMAIN table : ~is_empty(table[l]["geometry"])} |-> table[label]]

(***************************************************************************)
(* The inputs of the model.                                                *)
(***************************************************************************)
Tag(k, v) == k :> v

Nodes ==
    { Node(1, TRUE, Tag("amenity", "cafe"), 1, 1),
      Node(1, TRUE, Tag("shop", "bakery"), 2, 2),
      Node(1, TRUE, EmptyDict, 2, 2),
      Node(2, FALSE, EmptyDict, 2, 1),
      Node(3, TRUE, EmptyDict, 3, 1) }

Ways ==
    { Way(1, TRUE, Tag("highway", "residential"), <<1, 2>>),
      Way(2, TRUE, Tag("building", "yes"), <<1, 2, 3, 1>>),
      Way(2, FALSE, EmptyDict, <<1, 2, 3, 1>>),
      Way(3, TRUE, Tag("building", "yes") @@ Tag("amenity", "cafe"), <<2, 2>>),
      Way(4, TRUE, Tag("building", "yes"), <<2, 2, 2, 2>>) }

Relations ==
    { Relation(1, TRUE, Tag("type", "multipolygon"), <<Member("way", 2, "outer")>>),
      Relation(1, TRUE, Tag("type", "multipolygon") @@ Tag("natural", "water"),
               <<Member("way", 1, "outer"), Member("way", 4, "inner")>>),
      Relation(1, TRUE, Tag("type", "route"), <<Member("way", 1, "")>>),
      Relation(2, FALSE, EmptyDict, <<Member("way", 2, "outer")>>),
      Relation(2, TRUE, EmptyDict, <<Member("way", 2, "outer")>>),
      Relation(3, TRUE, Tag("type", "multipolygon") @@ Tag("building", "yes"),
               <<Member("way", 2, "outer"), Member("node", 1, ""), Member("way", 2, "outer")>>) }

Elements == Nodes \cup Ways \cup Relations

PolygonArgs ==
    { NoPolygon,
      [given |-> TRUE, shape |-> EmptyGeometry],
      [given |-> TRUE, shape |-> Polygon(<< <<1, 1>>, <<2, 1>>, <<2, 2>>, <<1, 1>> >>)],
      [given |-> TRUE, shape |-> Polygon(<< <<3, 1>>, <<4, 1>>, <<4, 2>>, <<3, 1>> >>)] }

TagsArgs ==
    { NoTags,
      [given |-> TRUE, spec |-> EmptyDict],
      [given |-> TRUE, spec |-> Tag("building", AnyValue)],
      [given |-> TRUE, spec |-> Tag("amenity", Str("cafe")) @@ Tag("shop", AnyValue)],
      [given |-> TRUE, spec |-> Tag("highway", List({"residential", "service"}))
                                @@ Tag("natural", Str("wood"))] }

RECURSIVE Sum(_)
Sum(s) == IF s = <<>> THEN 0 ELSE Head(s) + Sum(Tail(s))

\* The shapes of response_jsons: the number of elements of each batch.
BatchShapes ==
    {s \in UNION {[1..n -> 0..MaxElems] : n \in 0..MaxBatches} : Sum(s) <= MaxElems}

\* The batches after one element was read: empty batches are passed over.
RECURSIVE Consume(_)
Consume(s) == IF Head(s) = 0 THEN Consume(Tail(s)) ELSE <<Head(s) - 1>> \o Tail(s)

(***************************************************************************)
(* _create_gdf(response_jsons, polygon, tags)                              *)
(***************************************************************************)
NoError == [type |-> "none"]
\* The exception was not raised while an element was read.
NoElement == [type |-> "none"]
Raised(type, element) == [type |-> type, element |-> element]

\* No GeoDataFrame is filtered on its own.
NoFrame ==
    /\ frame = None
    /\ applied = <<>>

\* No polygons are subtracted on their own.
NoShells ==
    /\ outers = <<>>
    /\ inners = <<>>
    /\ outer = None
    /\ inners_left = <<>>
    /\ with_holes = <<>>
    /\ holed_geometry = None
    /\ shell = None
    /\ holed = <<>>
    /\ logged = 0

\* No way is parsed on its own.
NoWay ==
    /\ way = None
    /\ rule_table = EmptyDict
    /\ intersecting_keys = {}
    /\ is_polygon = FALSE
    /\ linestring_or_polygon = None
    /\ NoShells
    /\ NoFrame

Init ==
    /\ pc = "check"
    /\ err = NoError
    /\ sizes \in BatchShapes
    /\ coords = EmptyDict
    /\ geometries = EmptyDict
    /\ untagged_element_ids = {}
    /\ gdf = EmptyDict
    /\ polygon \in PolygonArgs
    /\ tags \in TagsArgs
    /\ last_element = EmptyDict
    /\ writers = EmptyDict
    /\ shells = EmptyDict
    /\ entry = "_create_gdf"
    /\ NoWay

\* A variant that takes one element for none.
NoElementsBelowTwo(s) == Sum(s) < 2

\* len(elements) < 1
NoElements(s) == Sum(s) < 1

\* The loop over the elements has an element left.
MoreElements(s) == Sum(s) > 0

\* The check that the responses hold data.
CheckElements ==
    /\ pc = "check"
    /\ IF NoElements(sizes)
       THEN pc' = "raised" /\ err' = Raised("EmptyOverpassResponse", NoElement)
       ELSE pc' = "loop" /\ err' = err
    /\ UNCHANGED <<sizes, coords, geometries, untagged_element_ids, gdf, polygon, tags,
                   last_element, writers, shells, entry, ruleVars>>

\* The element stores a record when it is read without an exception.
Producer(element) ==
    \/ element.type = "node" /\ ~Untagged(element)
    \/ element.type = "way"
    \/ element.type = "relation" /\ element.has_tags
       /\ Get(element.tags, "type") = "multipolygon"

\* untagged_element_ids after the element.
UntaggedAfter(ids, element) ==
    IF element.type # "node" /\ Untagged(element)
    THEN ids \cup {UniqueId(element.type, element.id)}
    ELSE ids

\* A variant that keeps the record a unique id already has.
StoreFirst(geoms, unique_id, record) ==
    IF unique_id \in DOMAIN geoms THEN geoms ELSE (unique_id :> record) @@ geoms

\* geometries[unique_id] = record
Store(geoms, unique_id, record) == (unique_id :> record) @@ geoms

\* The elements that wrote a record of the unique id so far.
Writers(ws, unique_id) == IF unique_id \in DOMAIN ws THEN ws[unique_id] ELSE <<>>

\* The last two elements of a sequence.
LastTwo(s) == IF Len(s) <= 2 THEN s ELSE SubSeq(s, Len(s) - 1, Len(s))

\* What every turn of the loop over the elements does.
Read(element) ==
    /\ pc = "loop"
    /\ MoreElements(sizes)
    /\ sizes' = Consume(sizes)
    /\ untagged_element_ids' = UntaggedAfter(untagged_element_ids, element)
    /\ last_element' = (UniqueId(element.type, element.id) :> element) @@ last_element
    /\ writers' = IF Producer(element)
                  THEN (UniqueId(element.type, element.id) :>
                           LastTwo(Append(Writers(writers, UniqueId(element.type, element.id)),
                                          element))) @@ writers
                  ELSE writers
    /\ UNCHANGED <<gdf, polygon, tags, entry, ruleVars>>

ReadNode ==
    \E element \in Nodes :
        /\ Read(element)
        /\ coords' = (element.id :> ParseNodeToCoord(element)) @@ coords
        /\ geometries' = IF element.has_tags /\ DOMAIN element.tags # {}
                         THEN Store(geometries, UniqueId("node", element.id),
                                    ParseNodeToPoint(element))
                         ELSE geometries
        /\ UNCHANGED <<pc, err, shells>>

ReadWay ==
    \E element \in Ways :
        LET parsed == ParseWay(element, coords, polygon_features)
        IN  /\ Read(element)
            /\ IF parsed.raised # "none"
               THEN /\ pc' = "raised"
                    /\ err' = Raised(parsed.raised, element)
                    /\ UNCHANGED geometries
               ELSE /\ geometries' = Store(geometries, UniqueId("way", element.id),
                                           parsed.record)
                    /\ UNCHANGED <<pc, err>>
            /\ UNCHANGED <<coords, shells>>

ReadRelation ==
    \E element \in Relations :
        /\ Read(element)
        /\ IF ~element.has_tags
           THEN /\ pc' = "raised"
                /\ err' = Raised("AttributeError", element)
                /\ UNCHANGED <<geometries, shells>>
           ELSE /\ geometries' = IF Get(element.tags, "type") = "multipolygon"
                                 THEN Store(geometries, UniqueId("relation", element.id),
                                            ParseRelation(element, geometries))
                                 ELSE geometries
                /\ shells' = IF Get(element.tags, "type") = "multipolygon"
                             THEN (UniqueId("relation", element.id)
                                      :> RelationShells(element, geometries)) @@ shells
                             ELSE shells
                /\ UNCHANGED <<pc, err>>
        /\ UNCHANGED coords

\* A variant that removes no element.
RemoveNothing(geoms, ids) == geoms

\* geometries without the untagged elements
RemoveUntagged(geoms, ids) == Without(geoms, ids)

\* After the loop: the untagged elements are removed, the GeoDataFrame is
\* made and its invalid geometries are buffered.
MakeGdf ==
    /\ pc = "loop"
    /\ ~MoreElements(sizes)
    /\ geometries' = RemoveUntagged(geometries, untagged_element_ids)
    /\ gdf' = BufferInvalidGeometries(geometries')
    /\ pc' = "filter"
    /\ UNCHANGED <<err, sizes, coords, untagged_element_ids, polygon, tags,
                   last_element, writers, shells, entry, ruleVars>>

\* The GeoDataFrame is filtered to the polygon and the tags of the call.
Filter ==
    /\ pc = "filter"
    /\ gdf' = FilterGdf(gdf, polygon, tags)
    /\ pc' = "drop"
    /\ UNCHANGED <<err, sizes, coords, geometries, untagged_element_ids, polygon, tags,
                   last_element, writers, shells, entry, ruleVars>>

\* The GeoDataFrame has a "geometry" column: the filter, when it is applied
\* (to a GeoDataFrame with rows) and keeps no row, leaves a frame in which
\* every column is all null and is removed by dropna(axis="columns").
HasGeometryColumn(table, geoms) == DOMAIN table # {} \/ DOMAIN geoms = {}

\* The rows without a geometry are dropped and the GeoDataFrame is returned.
\* gdf["geometry"] of a frame that lost the column is a KeyError; whether a
\* frame without rows loses its columns is up to the pandas of the build.
Return ==
    /\ pc = "drop"
    /\ \/ /\ gdf' = DropMissingOrEmpty(gdf)
          /\ pc' = "done"
          /\ UNCHANGED err
       \/ /\ ~HasGeometryColumn(gdf, geometries)
          /\ pc' = "raised"
          /\ err' = Raised("KeyError", NoElement)
          /\ UNCHANGED gdf
    /\ UNCHANGED <<sizes, coords, geometries, untagged_element_ids, polygon, tags,
                   last_element, writers, shells, entry, ruleVars>>

Next == CheckElements \/ ReadNode \/ ReadWay \/ ReadRelation \/ MakeGdf \/ Filter \/ Return

Spec == Init /\ [][Next]_vars

(***************************************************************************)
(* The entry points gdf_from_polygon and gdf_from_xml, followed by the     *)
(* call of _create_gdf.                                                    *)
(***************************************************************************)
\* The boundary shapes a caller may hand over: polygons and multipolygons,
\* valid and invalid, and shapes of other types.
Shapes ==
    { Polygon(<< <<1, 1>>, <<2, 1>>, <<2, 2>>, <<1, 1>> >>),
      Polygon(<< <<1, 1>>, <<2, 1>>, <<1, 1>>, <<1, 1>> >>),
      MultiPolygon(<< AreaPolygon({<<1, 1>>, <<2, 1>>}), AreaPolygon({<<3, 1>>}) >>),
      MultiPolygon(<< AreaPolygon({<<1, 1>>, <<2, 1>>}), AreaPolygon({<<2, 1>>}) >>),
      Point(1, 1),
      LineString(<< <<1, 1>>, <<2, 1>> >>),
      LineString(<< <<1, 1>>, <<1, 1>> >>) }

\* isinstance(polygon, (Polygon, MultiPolygon))
IsPolygonOrMultiPolygon(shape) == shape.geom_type \in {"Polygon", "MultiPolygon"}

\* The exception of the checks of gdf_from_polygon, "none" when they pass.
CheckPolygon(shape) ==
    IF ~is_valid(shape) THEN "ValueError"
    ELSE IF ~IsPolygonOrMultiPolygon(shape) THEN "TypeError"
    ELSE "none"

InitEntry ==
    /\ pc = "call"
    /\ entry \in {"gdf_from_polygon", "gdf_from_xml"}
    /\ polygon \in [given : {TRUE}, shape : Shapes] \cup {NoPolygon}
    /\ entry = "gdf_from_polygon" => polygon.given
    /\ tags \in TagsArgs
    /\ err = NoError
    /\ sizes = <<>>
    /\ coords = EmptyDict
    /\ geometries = EmptyDict
    /\ untagged_element_ids = {}
    /\ gdf = EmptyDict
    /\ last_element = EmptyDict
    /\ writers = EmptyDict
    /\ shells = EmptyDict
    /\ NoWay

\* gdf_from_polygon up to the call of _create_gdf: the polygon is checked,
\* then the responses are downloaded.
GdfFromPolygon ==
    /\ pc = "call"
    /\ entry = "gdf_from_polygon"
    /\ IF CheckPolygon(polygon.shape) # "none"
       THEN /\ pc' = "raised"
            /\ err' = Raised(CheckPolygon(polygon.shape), NoElement)
            /\ UNCHANGED sizes
       ELSE /\ pc' = "check"
            /\ sizes' \in BatchShapes
            /\ UNCHANGED err
    /\ UNCHANGED <<coords, geometries, untagged_element_ids, gdf, polygon, tags,
                   last_element, writers, shells, entry, ruleVars>>

\* gdf_from_xml up to the call of _create_gdf: the file is the one response.
GdfFromXml ==
    /\ pc = "call"
    /\ entry = "gdf_from_xml"
    /\ pc' = "check"
    /\ sizes' \in {s \in BatchShapes : Len(s) = 1}
    /\ UNCHANGED <<err, coords, geometries, untagged_element_ids, gdf, polygon, tags,
                   last_element, writers, shells, entry, ruleVars>>

NextEntry ==
    \/ GdfFromPolygon \/ GdfFromXml
    \/ CheckElements \/ ReadNode \/ ReadWay \/ ReadRelation \/ MakeGdf \/ Filter \/ Return

SpecEntry == InitEntry /\ [][NextEntry]_vars

(***************************************************************************)
(* _parse_way_to_linestring_or_polygon on one closed way, with the loop of *)
(* _closed_way_is_linestring_or_polygon taken one key at a time, in any    *)
(* order.                                                                  *)
(***************************************************************************)
RuleKeys == {"building", "natural", "highway"}

\* The value that is in the list of a key of the rule table, and one that is not.
ListedValue(key) ==
    CASE key = "building" -> "yes"
      [] key = "natural" -> "coastline"
      [] key = "highway" -> "services"
      [] OTHER -> "yes"

OtherValue(key) ==
    CASE key = "building" -> "no"
      [] key = "natural" -> "wood"
      [] key = "highway" -> "residential"
      [] OTHER -> "no"

Modes == {"all", "blocklist", "passlist"}

\* The rule tables: every choice of keys and modes, with or without area.
RuleTables ==
    {[k \in DOMAIN m |-> Rule(m[k], IF m[k] = "all" THEN {} ELSE {ListedValue(k)})] :
        m \in UNION {[K -> Modes] : K \in SUBSET RuleKeys}}
    \cup
    {("area" :> Rule("all", {})) @@
     [k \in DOMAIN m |-> Rule(m[k], IF m[k] = "all" THEN {} ELSE {ListedValue(k)})] :
        m \in UNION {[K -> Modes] : K \in SUBSET {"building", "highway"}}}
    \cup {polygon_features}

\* The tag maps: every choice of keys, each with a listed or another value.
TagMaps ==
    {t \in UNION {[K -> {"yes", "no", "coastline", "wood", "services", "residential"}] :
                    K \in SUBSET (RuleKeys \cup {"area"})} :
        \A k \in DOMAIN t : t[k] \in {ListedValue(k), OtherValue(k)}}

\* A ring, a ring of two and of one node, and a ring with the unknown node 4.
ClosedNodeLists == { <<1, 2, 3, 1>>, <<1, 1>>, <<1>>, <<1, 2, 4, 1>> }

ClosedWays ==
    {Way(5, TRUE, t, ns) : t \in TagMaps, ns \in ClosedNodeLists}
    \cup {Way(5, FALSE, EmptyDict, ns) : ns \in ClosedNodeLists}

KnownCoords ==
    (1 :> [lat |-> 1, lon |-> 1]) @@ (2 :> [lat |-> 1, lon |-> 2]) @@
    (3 :> [lat |-> 2, lon |-> 2])

InitRule ==
    /\ pc = "classify"
    /\ way \in ClosedWays
    /\ rule_table \in RuleTables
    /\ coords = KnownCoords
    /\ intersecting_keys = {}
    /\ is_polygon = FALSE
    /\ linestring_or_polygon = None
    /\ err = NoError
    /\ sizes = <<>>
    /\ geometries = EmptyDict
    /\ untagged_element_ids = {}
    /\ gdf = EmptyDict
    /\ polygon = NoPolygon
    /\ tags = NoTags
    /\ last_element = EmptyDict
    /\ writers = EmptyDict
    /\ shells = EmptyDict
    /\ entry = "_parse_way_to_linestring_or_polygon"
    /\ NoShells
    /\ NoFrame

notRuleVars == <<sizes, geometries, untagged_element_ids, gdf, polygon, tags,
                 last_element, writers, shells, entry, coords, way, rule_table, shellVars,
                 frameVars>>

\* _closed_way_is_linestring_or_polygon up to its loop.
StartClassify ==
    /\ pc = "classify"
    /\ is_polygon' = FALSE
    /\ IF ComparesTags(way)
       THEN /\ intersecting_keys' = DOMAIN way.tags \cap DOMAIN rule_table
            /\ pc' = "keys"
       ELSE /\ pc' = "classified"
            /\ UNCHANGED intersecting_keys
    /\ UNCHANGED <<err, linestring_or_polygon, notRuleVars>>

\* One turn of the loop, for any of the keys that are left.
VisitIntersectingKey ==
    \E key \in intersecting_keys :
        /\ pc = "keys"
        /\ is_polygon' = VisitKey(is_polygon, key, way.tags, rule_table)
        /\ intersecting_keys' = intersecting_keys \ {key}
        /\ UNCHANGED <<pc, err, linestring_or_polygon, notRuleVars>>

\* The loop is over: is_polygon is returned.
EndClassify ==
    /\ pc = "keys"
    /\ intersecting_keys = {}
    /\ pc' = "classified"
    /\ UNCHANGED <<err, intersecting_keys, is_polygon, linestring_or_polygon, notRuleVars>>

\* The geometry of the closed way is built and the record returned.
BuildClosedWay ==
    LET parsed == WayRecord(way, ClosedWayGeometry(way, coords, is_polygon))
    IN  /\ pc = "classified"
        /\ IF parsed.raised # "none"
           THEN /\ pc' = "raised"
                /\ err' = Raised(parsed.raised, way)
                /\ UNCHANGED linestring_or_polygon
           ELSE /\ pc' = "built"
                /\ linestring_or_polygon' = parsed.record
                /\ UNCHANGED err
        /\ UNCHANGED <<intersecting_keys, is_polygon, notRuleVars>>

NextRule == StartClassify \/ VisitIntersectingKey \/ EndClassify \/ BuildClosedWay

SpecRule == InitRule /\ [][NextRule]_vars

(***************************************************************************)
(* The claims.                                                             *)
(***************************************************************************)
\* An exception left _create_gdf while an element was read.
RaisedAtElement == pc = "raised" /\ err.element.type # "none"

\* C1: a way that references a node id that is not in the coordinate table
\* never makes _create_gdf raise: its record gets the empty geometry and the
\* loop goes on to the next element.
C1_MissingNodeWayDoesNotRaise ==
    RaisedAtElement =>
        ~(err.element.type = "way" /\ MissingNodes(err.element, coords) # {})

\* C2: a way or relation without tags, or with an empty tag map, is recorded
\* in the untagged set and never aborts the batch (here for the elements
\* whose node references, if any, all resolve).
C2_UntaggedElementDoesNotAbort ==
    RaisedAtElement =>
        ~(/\ err.element.type # "node"
          /\ Untagged(err.element)
          /\ MissingNodes(err.element, coords) = {})

\* The rule of the rule table for a tag map: not area=no, and a key of the
\* tags that the table holds yields polygon.
YieldsPolygon(t, table, key) ==
    \/ table[key].polygon = "all"
    \/ table[key].polygon = "blocklist" /\ t[key] \notin table[key].values
    \/ table[key].polygon = "passlist" /\ t[key] \in table[key].values

RuleSaysPolygon(element, table) ==
    /\ element.has_tags
    /\ ~("area" \in DOMAIN element.tags /\ element.tags["area"] = "no")
    /\ \E key \in DOMAIN element.tags \cap DOMAIN table : YieldsPolygon(element.tags, table, key)

\* _closed_way_is_linestring_or_polygon has returned.
Classified ==
    /\ entry = "_parse_way_to_linestring_or_polygon"
    /\ pc \in {"classified", "built", "raised"}

\* C3: for every closed way, tag map and rule table, the value returned by
\* _closed_way_is_linestring_or_polygon is the value of the rule, whatever
\* the order in which the shared keys were visited; area=no gives FALSE.
C3_ClassificationIsTheRule ==
    Classified =>
        /\ is_polygon = RuleSaysPolygon(way, rule_table)
        /\ ClosedWayIsPolygon(way, rule_table) = is_polygon
        /\ (way.has_tags /\ Get(way.tags, "area") = "no") => ~is_polygon

\* C3 witness: the way was classified polygon although one of several
\* shared keys yields line.
C3_Witness ==
    /\ Classified
    /\ is_polygon
    /\ \E j, k \in DOMAIN way.tags \cap DOMAIN rule_table :
          /\ YieldsPolygon(way.tags, rule_table, j)
          /\ ~YieldsPolygon(way.tags, rule_table, k)
          /\ rule_table[j].polygon # "all"
    /\ Cardinality(DOMAIN way.tags \cap DOMAIN rule_table) >= 3

\* The closed way has a tag key that the rule table registers as "all".
HasAllKey(element, table) ==
    /\ element.has_tags
    /\ \E key \in DOMAIN element.tags \cap DOMAIN table : table[key].polygon = "all"

\* The geometry is a Polygon, or the empty geometry of a ring the kernel
\* rejected (fewer than four node references).
PolygonOrRejectedRing(element, geometry) ==
    \/ geometry.geom_type = "Polygon"
    \/ Len(element.nodes) < 4 /\ geometry = EmptyGeometry

Built == entry = "_parse_way_to_linestring_or_polygon" /\ pc = "built"

\* C4 as stated: every closed way with a tag key registered as "all" gets
\* a Polygon.
C4_AllKeyGivesPolygon ==
    (Built /\ HasAllKey(way, rule_table)) =>
        PolygonOrRejectedRing(way, linestring_or_polygon["geometry"])

\* C4 amended: every closed way with a tag key registered as "all" that is
\* not tagged area=no gets a Polygon in the record that is returned for it.
C4_AllKeyGivesPolygonUnlessAreaNo ==
    (Built /\ HasAllKey(way, rule_table) /\ Get(way.tags, "area") # "no") =>
        PolygonOrRejectedRing(way, linestring_or_polygon["geometry"])

\* C4 witness: a Polygon was built for a way with an "all" key and with
\* another shared key that yields line.
C4_Witness ==
    /\ Built
    /\ HasAllKey(way, rule_table)
    /\ linestring_or_polygon["geometry"].geom_type = "Polygon"
    /\ ~is_empty(linestring_or_polygon["geometry"])
    /\ \E k \in DOMAIN way.tags \cap DOMAIN rule_table : ~YieldsPolygon(way.tags, rule_table, k)

\* _create_gdf has returned its table.
Returned == entry = "_create_gdf" /\ pc = "done"

\* C5: every row of a table that _create_gdf returns, whatever the polygon
\* and the tags of the call, has a geometry that is neither missing nor
\* empty.
C5_ReturnedRowsHaveGeometry ==
    Returned =>
        \A label \in DOMAIN gdf :
            /\ "geometry" \in DOMAIN gdf[label]
            /\ gdf[label]["geometry"] # EmptyGeometry
            /\ gdf[label]["geometry"].cells # {}

\* C5 witness: a table with rows was returned by a call without polygon and
\* tags, and a record with the empty geometry has no row in it.
C5_Witness ==
    /\ Returned
    /\ ~polygon.given /\ ~tags.given
    /\ DOMAIN gdf # {}
    /\ \E unique_id \in DOMAIN geometries \ DOMAIN gdf :
          geometries[unique_id]["geometry"] = EmptyGeometry

\* The columns of a row that are not tags.
RecordColumns == {"geometry", "osmid", "element_type", "nodes", "ways", "unique_id"}

\* The row holds what the element holds: its id, its type, its tags and
\* its place (the point of a node, the node ids of a way, the way ids of a
\* relation).
RowBuiltFrom(row, element) ==
    /\ row["osmid"] = element.id
    /\ row["element_type"] = element.type
    /\ DOMAIN row \ RecordColumns = (IF element.has_tags THEN DOMAIN element.tags ELSE {})
    /\ \A key \in DOMAIN row \ RecordColumns : row[key] = element.tags[key]
    /\ element.type = "node" =>
          row["geometry"].coords = << <<element.lon, element.lat>> >>
    /\ element.type = "way" => row["nodes"] = element.nodes
    /\ element.type = "relation" =>
          LET member_ways == SelectSeq(element.members, LAMBDA member : member.type = "way")
          IN  row["ways"] = [i \in DOMAIN member_ways |-> member_ways[i].ref]

\* The last element of a non-empty sequence.
Last(s) == s[Len(s)]

\* C6 as stated: the row of a unique id is built from the last element of
\* the input that has this unique id.
C6_RowIsLastOccurrence ==
    Returned =>
        \A label \in DOMAIN gdf :
            /\ gdf[label]["unique_id"] = label
            /\ RowBuiltFrom(gdf[label], last_element[label])

\* C6 amended: the row of a unique id is built from the last element of
\* the input with this unique id that wrote a record (a tagged node, a way,
\* a multipolygon relation); an untagged node or another relation writes
\* nothing and leaves the earlier record in place.
C6_RowIsLastWrite ==
    Returned =>
        \A label \in DOMAIN gdf :
            /\ gdf[label]["unique_id"] = label
            /\ label \in DOMAIN writers
            /\ RowBuiltFrom(gdf[label], Last(writers[label]))

\* C6 witness: a row of the returned table was written twice, by two
\* elements that differ, and holds the later one.
C6_Witness ==
    /\ Returned
    /\ \E label \in DOMAIN gdf :
          /\ Len(writers[label]) = 2
          /\ writers[label][1] # writers[label][2]
          /\ ~RowBuiltFrom(gdf[label], writers[label][1])
          /\ RowBuiltFrom(gdf[label], writers[label][2])

\* The row matches the requested key under the mode of the key: True, the
\* row has a value for the key; a string, the value is that string; a
\* list, the value is in the list.
MatchesKey(row, key, value) ==
    /\ key \in DOMAIN row
    /\ \/ value.is = "True"
       \/ value.is = "str" /\ row[key] = value.str
       \/ value.is = "list" /\ row[key] \in value.list

MatchesSomeKey(row, spec) == \E key \in DOMAIN spec : MatchesKey(row, key, spec[key])

\* The geometry of the row meets the boundary shape.
MeetsBoundary(row, shape) == \E cell \in row["geometry"].cells : cell \in shape.cells

\* The rows to keep when the tag filter and the spatial filter are in force
\* as said.
RowsToKeep(table, tag_filter_on, spatial_filter_on) ==
    {label \in DOMAIN table :
        /\ tag_filter_on => MatchesSomeKey(table[label], tags.spec)
        /\ spatial_filter_on => MeetsBoundary(table[label], polygon.shape)}

\* The step of _filter_gdf_by_polygon_and_tags keeps these rows, as they are.
FilterStepKeeps(labels) ==
    pc = "filter" =>
        /\ DOMAIN gdf' = labels
        /\ \A label \in DOMAIN gdf' :
              \A column \in DOMAIN gdf[label] : gdf'[label][column] = gdf[label][column]

AssembledRelations == DOMAIN shells \cap DOMAIN geometries

\* C8: the geometry of a multipolygon relation is the one polygon when one
\* outer polygon with holes resulted, and else a MultiPolygon of all of
\* them, which is the empty MultiPolygon when none resulted; no exception
\* leaves _create_gdf at a multipolygon relation.
C8_OneShellPolygonElseMultiPolygon ==
    /\ \A unique_id \in AssembledRelations :
          LET geometry == geometries[unique_id]["geometry"]
              made == shells[unique_id]
          IN  /\ Len(made) = 1 => geometry.geom_type = "Polygon" /\ geometry = made[1]
              /\ Len(made) >= 2 => geometry.geom_type = "MultiPolygon" /\ geometry.geoms = made
              /\ Len(made) = 0 => geometry = EmptyGeometry
    /\ \A unique_id \in DOMAIN shells : unique_id \in DOMAIN geometries
    /\ RaisedAtElement =>
          ~(/\ err.element.type = "relation"
            /\ err.element.has_tags
            /\ "type" \in DOMAIN err.element.tags
            /\ err.element.tags["type"] = "multipolygon")

\* C8 witness: a multipolygon relation was read of which two outer polygons
\* with holes resulted, and its geometry is the MultiPolygon of the two.
C8_Witness ==
    /\ entry = "_create_gdf" /\ pc = "loop"
    /\ \E unique_id \in AssembledRelations :
          /\ Len(shells[unique_id]) = 2
          /\ geometries[unique_id]["geometry"].geom_type = "MultiPolygon"
          /\ Len(geometries[unique_id]["geometry"].geoms) = 2

\* _create_gdf raised the error of a response without data.
RaisedEmptyResponse == pc = "raised" /\ err.type = "EmptyOverpassResponse"

\* C9: when the batches hold no element together, _create_gdf raises
\* EmptyOverpassResponse before it reads a coordinate or builds a geometry,
\* whatever polygon and tags are; when they hold an element, it never
\* raises this error.
C9_EmptyResponseIffNoElements ==
    (entry = "_create_gdf" /\ pc # "check") =>
        /\ RaisedEmptyResponse <=>
              /\ last_element = EmptyDict
              /\ \A i \in DOMAIN sizes : sizes[i] = 0
        /\ RaisedEmptyResponse =>
              /\ coords = EmptyDict
              /\ geometries = EmptyDict
              /\ gdf = EmptyDict

\* C9 witness: the error was raised for two batches without elements, in a
\* call with a polygon and with tags.
C9_Witness ==
    /\ entry = "_create_gdf"
    /\ RaisedEmptyResponse
    /\ Len(sizes) = 2
    /\ polygon.given /\ polygon.shape.cells # {}
    /\ tags.given /\ DOMAIN tags.spec # {}

\* The errors the boundary shape calls for: a type error when it is no
\* Polygon or MultiPolygon, a validity error when it is invalid.
ErrorsCalledFor(shape) ==
    (IF shape.geom_type \notin {"Polygon", "MultiPolygon"} THEN {"TypeError"} ELSE {})
    \cup (IF ~is_valid(shape) THEN {"ValueError"} ELSE {})

\* C10: a call of gdf_from_polygon or gdf_from_xml with a boundary shape
\* that is no Polygon or MultiPolygon, or that is invalid, raises the type
\* error or the validity error that the shape calls for, and has no
\* response downloaded or parsed and no table made.
C10_BadBoundaryShapeIsRejected ==
    (/\ entry \in {"gdf_from_polygon", "gdf_from_xml"}
     /\ pc # "call"
     /\ polygon.given
     /\ ErrorsCalledFor(polygon.shape) # {}) =>
        /\ pc = "raised"
        /\ err.type \in ErrorsCalledFor(polygon.shape)
        /\ sizes = <<>>
        /\ last_element = EmptyDict
        /\ gdf = EmptyDict

\* _create_gdf has returned the table of a call without polygon and tags.
ReturnedUnfiltered == Returned /\ ~polygon.given /\ ~tags.given

\* The unique ids of the node elements that were read.
NodesRead == {unique_id \in DOMAIN last_element : unique_id[1] = "node"}

\* The table has a row of the unique id that is a Point at the place of
\* the node element.
HasPointOf(table, unique_id, element) ==
    /\ unique_id \in DOMAIN table
    /\ table[unique_id]["unique_id"] = unique_id
    /\ table[unique_id]["geometry"].geom_type = "Point"
    /\ table[unique_id]["geometry"].coords = << <<element.lon, element.lat>> >>

\* Every node element read is in the coordinate table, at its place when
\* it is the last one of its id.
NodesAreInCoords ==
    \A unique_id \in NodesRead :
        /\ unique_id[2] \in DOMAIN coords
        /\ coords[unique_id[2]].lon = last_element[unique_id].lon
        /\ coords[unique_id[2]].lat = last_element[unique_id].lat

\* C11 as stated: in the table of a call without polygon and tags every
\* node element with tags has a row that is a Point at its place, and a
\* node element without tags has no row but is in the coordinate table.
C11_TaggedNodeHasItsPoint ==
    ReturnedUnfiltered =>
        /\ \A unique_id \in NodesRead \cap DOMAIN writers :
              \A i \in DOMAIN writers[unique_id] :
                  HasPointOf(gdf, unique_id, writers[unique_id][i])
        /\ \A unique_id \in NodesRead :
              Untagged(last_element[unique_id]) => unique_id \notin DOMAIN gdf
        /\ NodesAreInCoords

\* C11 amended: a node id has a row iff a node element of this id had
\* tags, the row is a Point at the place of the last such element, and
\* every node element read is in the coordinate table.
C11_TaggedNodeIdHasLastPoint ==
    ReturnedUnfiltered =>
        /\ \A unique_id \in NodesRead :
              IF unique_id \in DOMAIN writers
              THEN HasPointOf(gdf, unique_id, Last(writers[unique_id]))
              ELSE unique_id \notin DOMAIN gdf
        /\ NodesAreInCoords

\* C11 witness: the table has the Point of a node with tags, a node
\* without tags has no row and is in the coordinate table at a place whose
\* longitude is not its latitude.
C11_Witness ==
    /\ ReturnedUnfiltered
    /\ \E unique_id \in NodesRead \cap DOMAIN writers :
          HasPointOf(gdf, unique_id, Last(writers[unique_id]))
    /\ \E unique_id \in NodesRead \ DOMAIN writers :
          /\ unique_id \notin DOMAIN gdf
          /\ coords[unique_id[2]].lon # coords[unique_id[2]].lat

(***************************************************************************)
(* The record and the row of one element whose tags may have the names of  *)
(* the columns that the parsers assign.                                    *)
(***************************************************************************)
\* The columns the parsers assign.
AssignedColumns == {"osmid", "element_type", "nodes", "ways", "geometry"}

\* The value of a tag with the name of a column.  A tag value is a string,
\* and no string is equal to an id; in the osmid column, where it is compared
\* with ids, the number that is no id stands for it.
ColumnTagValue(key) == IF key = "osmid" THEN 0 ELSE "x"

\* The tag maps: the tags of the element and any tags named as columns.
ColumnTagMaps(element_tags) ==
    {element_tags @@ [key \in K |-> ColumnTagValue(key)] : K \in SUBSET AssignedColumns}

\* A node, a closed way and a multipolygon relation of the way, with such tags.
ColumnTaggedElements ==
    {Node(1, TRUE, t, 1, 1) : t \in ColumnTagMaps(Tag("amenity", "cafe"))}
    \cup {Way(2, TRUE, t, <<1, 2, 3, 1>>) : t \in ColumnTagMaps(Tag("building", "yes"))}
    \cup {Relation(3, TRUE, t, <<Member("way", 5, "outer")>>) :
              t \in ColumnTagMaps(Tag("type", "multipolygon"))}

\* geometries when the element is read: the member way of the relation.
WaysBuilt ==
    UniqueId("way", 5) :>
        ParseWay(Way(5, TRUE, Tag("building", "yes"), <<1, 2, 3, 1>>),
                 KnownCoords, polygon_features).record

InitRecord ==
    /\ pc = "parse"
    /\ way \in ColumnTaggedElements
    /\ entry = (CASE way.type = "node" -> "_parse_node_to_point"
                  [] way.type = "way" -> "_parse_way_to_linestring_or_polygon"
                  [] OTHER -> "_parse_relation_to_multipolygon")
    /\ coords = KnownCoords
    /\ geometries = WaysBuilt
    /\ rule_table = polygon_features
    /\ intersecting_keys = {}
    /\ is_polygon = FALSE
    /\ linestring_or_polygon = None
    /\ err = NoError
    /\ sizes = <<>>
    /\ untagged_element_ids = {}
    /\ gdf = EmptyDict
    /\ polygon = NoPolygon
    /\ tags = NoTags
    /\ last_element = EmptyDict
    /\ writers = EmptyDict
    /\ shells = EmptyDict
    /\ NoShells
    /\ NoFrame

\* The element is parsed and its record stored under its unique id.
ParseElement ==
    /\ pc = "parse"
    /\ linestring_or_polygon' =
          (CASE way.type = "node" -> ParseNodeToPoint(way)
             [] way.type = "way" -> ParseWay(way, coords, rule_table).record
             [] OTHER -> ParseRelation(way, geometries))
    /\ geometries' = Store(geometries, UniqueId(way.type, way.id), linestring_or_polygon')
    /\ pc' = "record"
    /\ UNCHANGED <<err, sizes, coords, untagged_element_ids, gdf, polygon, tags,
                   last_element, writers, shells, entry, way, rule_table,
                   intersecting_keys, is_polygon, shellVars, frameVars>>

\* The table of the records is made, repaired, filtered and returned.
MakeRows ==
    /\ pc = "record"
    /\ gdf' = DropMissingOrEmpty(
                 FilterGdf(BufferInvalidGeometries(
                               RemoveUntagged(geometries, untagged_element_ids)),
                           polygon, tags))
    /\ pc' = "rows"
    /\ UNCHANGED <<err, sizes, coords, geometries, untagged_element_ids, polygon, tags,
                   last_element, writers, shells, entry, ruleVars>>

NextRecord == ParseElement \/ MakeRows

SpecRecord == InitRecord /\ [][NextRecord]_vars

\* C12: the row of an element, whatever the names of its tags, has the id
\* of the element in osmid, its type in element_type, the shape built for
\* it in geometry, and the pair of the two as unique id.
C12_RowKeepsIdTypeAndShape ==
    pc = "rows" =>
        LET unique_id == UniqueId(way.type, way.id)
        IN  /\ unique_id \in DOMAIN gdf
            /\ gdf[unique_id]["osmid"] = way.id
            /\ gdf[unique_id]["element_type"] = way.type
            /\ gdf[unique_id]["geometry"] = geometries[unique_id]["geometry"]
            /\ gdf[unique_id]["geometry"].geom_type
                  = (IF way.type = "node" THEN "Point" ELSE "Polygon")
            /\ gdf[unique_id]["unique_id"]
                  = <<gdf[unique_id]["element_type"], gdf[unique_id]["osmid"]>>

\* The unique ids of the member ways of the relation with the role.
MemberWays(element, role) ==
    {UniqueId("way", element.members[i].ref) :
        i \in {j \in DOMAIN element.members :
                 element.members[j].type = "way" /\ element.members[j].role = role}}

\* The cells of the geometries of the ways.
CellsOfWays(geoms, unique_ids) ==
    UNION {geoms[unique_id]["geometry"].cells : unique_id \in unique_ids \cap DOMAIN geoms}

\* The way is untagged and has a ring in geometries that bounds an area.
UntaggedRing(geoms, ids, unique_id) ==
    /\ unique_id \in ids \cap DOMAIN geoms
    /\ Cardinality(geoms[unique_id]["geometry"].cells) >= 3

\* The step assembled the multipolygon relation with the unique id.
Assembles(unique_id) ==
    /\ pc = "loop"
    /\ unique_id \in DOMAIN shells'
    /\ unique_id \in DOMAIN last_element'
    /\ last_element' # last_element \/ sizes' # sizes
    /\ unique_id \notin DOMAIN shells \/ shells'[unique_id] # shells[unique_id]

\* The relation assembled in the step has the area of its untagged outer
\* ways, less the area of its inner ways.
UntaggedWaysContribute ==
    \A unique_id \in DOMAIN shells' :
        Assembles(unique_id) =>
            LET element == Last(writers'[unique_id])
            IN  (MemberWays(element, "outer") \cup MemberWays(element, "inner")
                    \subseteq DOMAIN geometries) =>
                \A member \in MemberWays(element, "outer") :
                    UntaggedRing(geometries, untagged_element_ids, member) =>
                        geometries[member]["geometry"].cells
                        \subseteq (geometries'[unique_id]["geometry"].cells
                                   \cup CellsOfWays(geometries, MemberWays(element, "inner")))

\* C13: an untagged way that is a member of a multipolygon relation gives
\* its shape to the geometry of the relation; while elements are read the
\* untagged ways stay in geometries; no unique id of the untagged set is a
\* row of the table that is returned.
C13_UntaggedWayContributesAndHasNoRow ==
    [][/\ UntaggedWaysContribute
       /\ pc' = "loop" =>
             \A unique_id \in untagged_element_ids' :
                 unique_id[1] = "way" => unique_id \in DOMAIN geometries'
       /\ (entry = "_create_gdf" /\ pc' = "done") =>
             DOMAIN gdf' \cap untagged_element_ids' = {}]_vars

\* C13 witness: the returned table has the row of a relation with the area
\* of an untagged outer way, and no row of that way.
C13_Witness ==
    /\ Returned
    /\ \E unique_id \in DOMAIN gdf \cap DOMAIN shells :
          \E member \in MemberWays(Last(writers[unique_id]), "outer") :
              /\ member \in untagged_element_ids
              /\ member \notin DOMAIN gdf
              /\ member \in DOMAIN last_element
              /\ Untagged(last_element[member])
              /\ Cardinality(gdf[unique_id]["geometry"].cells) >= 3

\* The loop over the elements of _create_gdf is over.
AllElementsRead == entry = "_create_gdf" /\ pc \in {"filter", "drop", "done"}

\* The way has a line or a ring that the kernel accepts: an open way, or a
\* closed way of four node references or more.
Buildable(element) == ~IsClosed(element) \/ Len(element.nodes) >= 4

\* C14: when all elements are read, every way whose node ids all occurred
\* as node elements has a geometry with the coordinate of each of its
\* nodes, wherever the node elements were in the input.
C14_WayBuiltAfterAllNodes ==
    AllElementsRead =>
        \A unique_id \in DOMAIN geometries :
            unique_id[1] = "way" =>
                LET element == Last(writers[unique_id])
                IN  (Buildable(element) /\ MissingNodes(element, coords) = {}) =>
                        /\ geometries[unique_id]["geometry"] # EmptyGeometry
                        /\ Len(geometries[unique_id]["geometry"].coords) = Len(element.nodes)

\* The unique ids of the member ways of the relation.
AllMemberWays(element) ==
    {UniqueId("way", element.members[i].ref) :
        i \in {j \in DOMAIN element.members : element.members[j].type = "way"}}

\* C15: when all elements are read, every multipolygon relation whose
\* member ways all occurred as way elements was assembled from them (its
\* record has the nodes of the member ways), wherever the way elements
\* were in the input.
C15_RelationAssembledAfterAllWays ==
    AllElementsRead =>
        \A unique_id \in DOMAIN geometries \cap DOMAIN shells :
            LET element == Last(writers[unique_id])
            IN  AllMemberWays(element) \subseteq DOMAIN last_element =>
                    /\ "nodes" \in DOMAIN geometries[unique_id]
                    /\ Len(geometries[unique_id]["nodes"][1])
                          = Cardinality({i \in DOMAIN element.members :
                                            element.members[i].type = "way"})

(***************************************************************************)
(* _subtract_inner_polygons_from_outer_polygons on its own, step by step.  *)
(* Whether the kernel raises a TopologicalError in a difference is not     *)
(* decided by the arguments the model knows: either outcome may happen.    *)
(***************************************************************************)
MaxInner == 3

\* The shells: a block of six cells, and two cells apart from it.
OuterShapes ==
    {AreaPolygon({<<1, 1>>, <<2, 1>>, <<3, 1>>, <<1, 2>>, <<2, 2>>, <<3, 2>>}),
     AreaPolygon({<<5, 1>>, <<5, 2>>})}

\* The holes: two that overlap, one that touches them, one of the second
\* shell, and one that is only partly within the first shell.
InnerShapes ==
    {AreaPolygon({<<1, 1>>, <<2, 1>>}),
     AreaPolygon({<<2, 1>>, <<3, 1>>}),
     AreaPolygon({<<3, 2>>}),
     AreaPolygon({<<5, 1>>}),
     AreaPolygon({<<3, 1>>, <<4, 1>>})}

\* The lists of at most n different members of S, in any order.
ListsOf(S, n) ==
    UNION {{l \in [1..k -> S] : \A i, j \in 1..k : i # j => l[i] # l[j]} : k \in 0..n}

InitShells ==
    /\ pc = "outer"
    /\ entry = "_subtract_inner_polygons_from_outer_polygons"
    /\ outers \in ListsOf(OuterShapes, 2)
    /\ inners \in ListsOf(InnerShapes, MaxInner)
    /\ outer = None
    /\ inners_left = <<>>
    /\ with_holes = <<>>
    /\ holed_geometry = None
    /\ shell = None
    /\ holed = <<>>
    /\ logged = 0
    /\ err = NoError
    /\ sizes = <<>>
    /\ coords = EmptyDict
    /\ geometries = EmptyDict
    /\ untagged_element_ids = {}
    /\ gdf = EmptyDict
    /\ polygon = NoPolygon
    /\ tags = NoTags
    /\ last_element = EmptyDict
    /\ writers = EmptyDict
    /\ shells = EmptyDict
    /\ way = None
    /\ rule_table = EmptyDict
    /\ intersecting_keys = {}
    /\ is_polygon = FALSE
    /\ linestring_or_polygon = None
    /\ NoFrame

notShellVars == <<sizes, coords, geometries, untagged_element_ids, gdf, polygon, tags,
                  last_element, writers, shells, entry, way, rule_table,
                  intersecting_keys, is_polygon, linestring_or_polygon, inners,
                  frameVars>>

\* The outer loop takes its next polygon.
NextOuterPolygon ==
    /\ pc = "outer"
    /\ outers # <<>>
    /\ outer' = Head(outers)
    /\ shell' = Head(outers)
    /\ outers' = Tail(outers)
    /\ inners_left' = inners
    /\ pc' = "inner"
    /\ UNCHANGED <<err, with_holes, holed_geometry, holed, logged, notShellVars>>

\* The inner polygon is not within outer: nothing is done with it.
SkipInnerPolygon ==
    /\ pc = "inner"
    /\ inners_left # <<>>
    /\ ~Within(Head(inners_left), outer)
    /\ inners_left' = Tail(inners_left)
    /\ UNCHANGED <<pc, err, outers, outer, with_holes,
                   holed_geometry, shell, holed, logged, notShellVars>>

\* The inner polygon is within outer and the difference is made.
SubtractInnerPolygon ==
    /\ pc = "inner"
    /\ inners_left # <<>>
    /\ Within(Head(inners_left), outer)
    /\ outer' = Difference(outer, Head(inners_left))
    /\ inners_left' = Tail(inners_left)
    /\ UNCHANGED <<pc, err, outers, with_holes,
                   holed_geometry, shell, holed, logged, notShellVars>>

\* The inner polygon is within outer and the difference raises a
\* TopologicalError: the except block is entered and the error logged.
DifferenceRaises ==
    /\ pc = "inner"
    /\ inners_left # <<>>
    /\ Within(Head(inners_left), outer)
    /\ logged' = logged + 1
    /\ pc' = "except"
    /\ UNCHANGED <<err, outers, outer, inners_left,
                   with_holes, holed_geometry, shell, holed, notShellVars>>

\* The except block: the difference of the zero-buffered polygons is made.
SubtractBuffered ==
    /\ pc = "except"
    /\ outer' = Difference(Buffer0(outer), Buffer0(Head(inners_left)))
    /\ inners_left' = Tail(inners_left)
    /\ pc' = "inner"
    /\ UNCHANGED <<err, outers, with_holes,
                   holed_geometry, shell, holed, logged, notShellVars>>

\* The except block: the difference of the zero-buffered polygons raises a
\* TopologicalError, which nothing catches.
BufferedDifferenceRaises ==
    /\ pc = "except"
    /\ pc' = "raised"
    /\ err' = Raised("TopologicalError", NoElement)
    /\ UNCHANGED <<outers, outer, inners_left,
                   with_holes, holed_geometry, shell, holed, logged, notShellVars>>

\* The inner loop is over: outer is added to with_holes.
AppendOuterPolygon ==
    /\ pc = "inner"
    /\ inners_left = <<>>
    /\ with_holes' = with_holes \o Holed(outer)
    /\ holed' = Append(holed, [shell |-> shell, outer_polygon |-> outer])
    /\ pc' = "outer"
    /\ UNCHANGED <<err, outers, outer, inners_left,
                   holed_geometry, shell, logged, notShellVars>>

\* The outer loop is over: the geometry is made and returned.
ReturnGeometry ==
    /\ pc = "outer"
    /\ outers = <<>>
    /\ holed_geometry' = ShellsGeometry(with_holes)
    /\ pc' = "returned"
    /\ UNCHANGED <<err, outers, outer, inners_left,
                   with_holes, shell, holed, logged, notShellVars>>

NextShells ==
    \/ NextOuterPolygon
    \/ SkipInnerPolygon
    \/ SubtractInnerPolygon
    \/ DifferenceRaises
    \/ SubtractBuffered
    \/ BufferedDifferenceRaises
    \/ AppendOuterPolygon
    \/ ReturnGeometry

SpecShells == InitShells /\ [][NextShells]_vars

\* The inner polygons that are within the shell as the outer loop took it.
HolesOf(a_shell, polys) == {i \in DOMAIN polys : Within(polys[i], a_shell)}

\* The area of the shell without the area of the given inner polygons.
WithoutHoles(a_shell, polys, holes) ==
    a_shell.cells \ UNION {polys[i].cells : i \in holes}

\* C16: when the geometry is returned, every shell has lost the area of every
\* inner polygon that was within it as it was given, whatever the number and
\* the order of the inner polygons and whether or not they overlap or touch,
\* and has lost nothing else.
C16_EveryHoleWithinTheShellIsSubtracted ==
    (entry = "_subtract_inner_polygons_from_outer_polygons" /\ pc = "returned") =>
        \A n \in DOMAIN holed :
            holed[n].outer_polygon.cells
                = WithoutHoles(holed[n].shell, inners,
                               HolesOf(holed[n].shell, inners))

\* C17: a TopologicalError of a difference never leaves the function.
C17_TopologicalErrorNeverPropagates ==
    entry = "_subtract_inner_polygons_from_outer_polygons" => pc # "raised"

(***************************************************************************)
(* _parse_relation_to_multipolygon on its own: a multipolygon relation     *)
(* and a geometries dictionary that holds some of its member ways.         *)
(***************************************************************************)
MaxMembers == 3

\* The ways the members refer to: a ring, the same ring again, a way whose
\* nodes are not in coords (it has the empty LineString) and an open line.
MemberWayElements ==
    (5 :> Way(5, TRUE, Tag("building", "yes"), <<1, 2, 3, 1>>)) @@
    (6 :> Way(6, TRUE, Tag("building", "yes"), <<2, 3, 1, 2>>)) @@
    (7 :> Way(7, TRUE, Tag("building", "yes"), <<8, 9>>)) @@
    (8 :> Way(8, TRUE, Tag("highway", "residential"), <<1, 2>>))

\* geometries with the records of the ways whose id is in ids.
WayTable(ids) ==
    [unique_id \in {UniqueId("way", id) : id \in ids} |->
        ParseWay(MemberWayElements[unique_id[2]], KnownCoords, polygon_features).record]

MemberRelations ==
    {Relation(3, TRUE, Tag("type", "multipolygon"), members) :
        members \in ListsOf({Member("way", 5, "outer"), Member("way", 6, "inner"),
                             Member("way", 7, "outer"), Member("way", 8, "outer")},
                            MaxMembers)}

InitMembers ==
    /\ pc = "parse"
    /\ way \in MemberRelations
    /\ entry = "_parse_relation_to_multipolygon"
    /\ coords = KnownCoords
    /\ geometries \in {WayTable(ids) : ids \in SUBSET DOMAIN MemberWayElements}
    /\ rule_table = polygon_features
    /\ intersecting_keys = {}
    /\ is_polygon = FALSE
    /\ linestring_or_polygon = None
    /\ err = NoError
    /\ sizes = <<>>
    /\ untagged_element_ids = {}
    /\ gdf = EmptyDict
    /\ polygon = NoPolygon
    /\ tags = NoTags
    /\ last_element = EmptyDict
    /\ writers = EmptyDict
    /\ shells = EmptyDict
    /\ NoShells
    /\ NoFrame

SpecMembers == InitMembers /\ [][NextRecord]_vars

\* The members that are no way, and the member ways whose geometry is in
\* geometries and is not empty.
ValidMembers(members, geoms) ==
    LET Valid(member) ==
            member.type = "way" =>
                /\ UniqueId("way", member.ref) \in DOMAIN geoms
                /\ ~is_empty(geoms[UniqueId("way", member.ref)]["geometry"])
    IN  SelectSeq(members, Valid)

\* C18: the geometry of a parsed multipolygon relation is the geometry that
\* is assembled from its valid members: a member way that is missing from
\* geometries or has an empty geometry is left out and does not change it.
C18_RelationIsBuiltFromItsValidMembers ==
    (entry = "_parse_relation_to_multipolygon" /\ pc \in {"record", "rows"}
     /\ way \in MemberRelations) =>
        linestring_or_polygon["geometry"]
            = RelationGeometry([way EXCEPT !.members = ValidMembers(way.members, geometries)],
                               geometries)

(***************************************************************************)
(* The GeoDataFrame with its index and its columns: index is the sequence  *)
(* of the row labels, columns the sequence of the column labels (a label   *)
(* may occur twice) and rows the cells, row by row.  The order of the rows *)
(* and of the columns of from_dict is that of the dicts; the model takes   *)
(* one fixed order, which no operation below depends on.                   *)
(***************************************************************************)
MaxApplications == 2

\* A cell: NaN, or a value.
Null == [null |-> TRUE, value |-> None]
Cell(v) == [null |-> FALSE, value |-> v]

\* The members of S in a sequence.
RECURSIVE Ordered(_)
Ordered(S) ==
    IF S = {} THEN <<>>
    ELSE LET x == CHOOSE y \in S : TRUE IN <<x>> \o Ordered(S \ {x})

\* The members of s at the positions in P, in their order.
AtPositions(s, P) ==
    LET At(i) == i \in P
        positions == SelectSeq([i \in DOMAIN s |-> i], At)
    IN  [k \in DOMAIN positions |-> s[positions[k]]]

\* GeoDataFrame.from_dict(geometries, orient="index")
FromDict(geoms) ==
    LET index == Ordered(DOMAIN geoms)
        columns == Ordered(Columns(geoms))
    IN  [index |-> index,
         columns |-> columns,
         rows |-> [i \in DOMAIN index |->
                     [j \in DOMAIN columns |->
                         IF columns[j] \in DOMAIN geoms[index[i]]
                         THEN Cell(geoms[index[i]][columns[j]])
                         ELSE Null]]]

\* gdf.empty: no rows or no columns.
Empty(f) == f.index = <<>> \/ f.columns = <<>>

\* The position of the row with the label, and of a column with the label.
RowOf(f, label) == CHOOSE i \in DOMAIN f.index : f.index[i] = label
ColumnOf(f, column) == CHOOSE j \in DOMAIN f.columns : f.columns[j] = column

\* The rows by their labels, each with the columns it has a value in.
TableOf(f) ==
    [label \in Range(f.index) |->
        LET row == f.rows[RowOf(f, label)]
        IN  [column \in {f.columns[j] : j \in {k \in DOMAIN f.columns : ~row[k].null}} |->
                row[ColumnOf(f, column)].value]]

\* _buffer_invalid_geometries(gdf) for the frame.
BufferInvalidFrame(f) ==
    IF Empty(f) THEN f
    ELSE LET table == BufferInvalidGeometries(TableOf(f))
         IN  [f EXCEPT !.rows =
                [i \in DOMAIN f.index |->
                    [j \in DOMAIN f.columns |->
                        IF f.columns[j] = "geometry"
                        THEN Cell(table[f.index[i]]["geometry"])
                        ELSE f.rows[i][j]]]]

\* gdf[polygon_filter & combined_tag_filter].copy()
KeptRows(f, p, t) ==
    LET kept == {i \in DOMAIN f.index : f.index[i] \in Kept(TableOf(f), p, t)}
    IN  [f EXCEPT !.index = AtPositions(f.index, kept), !.rows = AtPositions(f.rows, kept)]

\* gdf.dropna(axis="columns", how="all"): a column goes unless a row has a
\* value in it.
DropNullColumns(f) ==
    LET kept == {j \in DOMAIN f.columns : \E i \in DOMAIN f.rows : ~f.rows[i][j].null}
    IN  [f EXCEPT !.columns = AtPositions(f.columns, kept),
                  !.rows = [i \in DOMAIN f.rows |-> AtPositions(f.rows[i], kept)]]

\* gdf.reset_index(): the labels become the first column, named "index"
\* ("level_0" when there is a column "index"), and the rows are numbered.
ResetIndex(f) ==
    [index |-> [i \in DOMAIN f.index |-> i - 1],
     columns |-> <<IF "index" \in Range(f.columns) THEN "level_0" ELSE "index">> \o f.columns,
     rows |-> [i \in DOMAIN f.rows |-> <<Cell(f.index[i])>> \o f.rows[i]]]

\* gdf.rename(columns={"index": "unique_id"})
RenameIndexColumn(f) ==
    [f EXCEPT !.columns =
        [j \in DOMAIN f.columns |-> IF f.columns[j] = "index" THEN "unique_id" ELSE f.columns[j]]]

\* _filter_gdf_by_polygon_and_tags(gdf, polygon, tags) for the frame.
FilterFrame(f, p, t) ==
    IF Empty(f) THEN f
    ELSE RenameIndexColumn(ResetIndex(DropNullColumns(KeptRows(f, p, t))))

\* The records the frames are made of: a node, a ring, a line and a ring of
\* one point, which is no valid polygon.
FrameRecords ==
    (UniqueId("node", 1) :> ParseNodeToPoint(Node(1, TRUE, Tag("amenity", "cafe"), 1, 1))) @@
    (UniqueId("way", 1) :>
        ParseWay(Way(1, TRUE, Tag("highway", "residential"), <<1, 2>>),
                 KnownCoords, polygon_features).record) @@
    (UniqueId("way", 2) :>
        ParseWay(Way(2, TRUE, Tag("building", "yes"), <<1, 2, 3, 1>>),
                 KnownCoords, polygon_features).record) @@
    (UniqueId("way", 4) :>
        ParseWay(Way(4, TRUE, Tag("building", "yes"), <<2, 2, 2, 2>>),
                 KnownCoords, polygon_features).record)

InitFrame ==
    /\ pc = "apply"
    /\ entry = "_filter_gdf_by_polygon_and_tags"
    /\ geometries \in {[unique_id \in ids |-> FrameRecords[unique_id]] :
                          ids \in SUBSET DOMAIN FrameRecords}
    /\ frame = FromDict(geometries)
    /\ applied = <<>>
    /\ polygon \in PolygonArgs
    /\ tags \in TagsArgs
    /\ err = NoError
    /\ sizes = <<>>
    /\ coords = KnownCoords
    /\ untagged_element_ids = {}
    /\ gdf = EmptyDict
    /\ last_element = EmptyDict
    /\ writers = EmptyDict
    /\ shells = EmptyDict
    /\ way = None
    /\ rule_table = EmptyDict
    /\ intersecting_keys = {}
    /\ is_polygon = FALSE
    /\ linestring_or_polygon = None
    /\ NoShells

\* The invalid geometries of the frame are buffered and the frame is
\* filtered to the polygon and the tags.
RepairThenFilter ==
    /\ pc = "apply"
    /\ Len(applied) < MaxApplications
    /\ frame' = FilterFrame(BufferInvalidFrame(frame), polygon, tags)
    /\ applied' = Append(applied, frame')
    /\ UNCHANGED <<pc, err, sizes, coords, geometries, untagged_element_ids, gdf, polygon,
                   tags, last_element, writers, shells, entry, way, rule_table,
                   intersecting_keys, is_polygon, linestring_or_polygon, shellVars>>

NextFrame == RepairThenFilter

SpecFrame == InitFrame /\ [][NextFrame]_vars

\* C19: the second application returns the frame it was given: the same
\* rows, the same columns, with no second column unique_id, and the same
\* values.
C19_SecondApplicationIsNoOp ==
    (entry = "_filter_gdf_by_polygon_and_tags" /\ Len(applied) >= 2) =>
        /\ applied[2].index = applied[1].index
        /\ applied[2].columns = applied[1].columns
        /\ Cardinality({j \in DOMAIN applied[2].columns :
                           applied[2].columns[j] = "unique_id"}) <= 1
        /\ applied[2].rows = applied[1].rows

\* A step leaves every coordinate that is stored in coords as it is.
CoordsAreKept ==
    \A id \in DOMAIN coords : id \in DOMAIN coords' /\ coords'[id] = coords[id]

\* C20: in a call of _create_gdf no step changes or removes the coordinate
\* that is stored for a node id, neither a later node with the same id nor
\* the processing of a way or a relation.
C20_StoredCoordinateNeverChanges ==
    [][entry = "_create_gdf" => CoordsAreKept]_vars

====
